---- MODULE Spec2Model ----
(***************************************************************************)
(* Model of the circuit breaker of oif/circuit-breaker (breaker.go).       *)
(*                                                                         *)
(* The breaker's fields (opt, state, generation, counts, mutex) are the    *)
(* state.  Every call of Do takes three steps: the admission               *)
(* (postStartHook, one critical section), the wrapped handle (outside the  *)
(* mutex), and the completion (preStopHook, one critical section), which   *)
(* is reached either by the handle returning or by the handle panicking.   *)
(* The breaker does not know its callers, so the calls whose handle is     *)
(* running are kept as a bag, each with the token its Do captured;         *)
(* NumProcs callers use the breaker concurrently.                          *)
(* time.Now() is the integer clock `now`; it never goes back, and two      *)
(* reads of it may return the same instant.  time.Time values are          *)
(* integers, so the generation token (an expiry timestamp) is an integer.  *)
(***************************************************************************)
EXTENDS Integers, Sequences, FiniteSets, Bags, TLC

\* ---------------------------------------------------------------- bounds
\* NumProcs: the callers that can be inside Do at once.
\* MaxTime: the clock stops advancing at this instant.
\* MaxRequest: no Do is started once counts.Request has reached it (Request
\*   grows without limit in a Closed generation that sees no failure).
NumProcs == 3
MaxTime == 4
MaxRequest == 4

\* ------------------------------------------------------------- constants
Open == "open"
HalfOpen == "half-open"
Closed == "closed"

ReasonManuallyReset == "manually reset"
ReasonOpenStateExpired == "open state expired"
ReasonReachThreshold == "reach threshold"
ReasonFailedOnHalfOpenState == "failed on half-open state"

ErrIsOpen == "breaker is open"
ErrHalfOpenButExceedRequestLimit == "breaker is half open, but current request exceed limit"

nil == "nil"
Unlocked == "unlocked"
Locked == "locked"

\* The configurations the breaker is constructed with (Option after New has
\* accepted it: every field set, HalfOpenRequestLimit >= SuccessThreshold).
Options ==
    { [GenerationInterval |-> 2, OpenStateExpiry |-> 1, FailureThreshold |-> 2,
       SuccessThreshold |-> 2, HalfOpenRequestLimit |-> 2] }

\* What a wrapped handle can do: return (resp, err), or panic.
HandleResults ==
    { [kind |-> "return", resp |-> "value", err |-> nil],
      [kind |-> "return", resp |-> "partial", err |-> "handle error"] }

HandlePanic == [kind |-> "panic", value |-> "handle panic"]

VARIABLES
    opt,         \* cb.opt
    state,       \* cb.state
    generation,  \* cb.generation: expiry of the current generation, the token
    counts,      \* cb.counts
    mutex,       \* cb.mutex: Unlocked or Locked
    now,         \* the wall clock read by time.Now()
    inflight,    \* the bag of the calls of Do whose handle is running:
                 \*   gen   Do's local gen, the token captured at admission
                 \*   probe (history) admitted while the state was HalfOpen
                 \*   stale (history) a generation was started since the admission
    ret,         \* history: what the Do that ended in the last step gave its caller
    notified,    \* history: the events OnStateChange received in the last step
    completed,   \* history: the call that completed in the last step, as it
                 \*   was in flight, and what its handle did (<<>>: no call
                 \*   completed)
    main         \* the example program's main, when it is the caller:
                 \*   pc    the statement of DemoScript it executes next
                 \*   took  the clock ticks since its last Sleep returned

vars == <<opt, state, generation, counts, mutex, now, inflight, ret, notified,
          completed, main>>

\* ------------------------------------------------------------------ Counts
ZeroCounts == [Request |-> 0, Success |-> 0, Failure |-> 0]

\* Counts.reset / CircuitBreaker.resetCounts
resetCounts(cb) == [cb EXCEPT !.counts = ZeroCounts]

\* Mutant: the trip function compares with > instead of >=.
shouldTripStrict(c) == c.Failure > opt.FailureThreshold

\* The default trip function installed by New.
shouldTrip(c) == c.Failure >= opt.FailureThreshold

\* Mutant: the expiry test holds already at the expiry instant.
AfterOrAt(t, u) == t >= u

\* time.Time.After
After(t, u) == t > u

\* The breaker as the methods see it; notified and moved collect what the
\* critical section did (events sent, generation started).
Breaker ==
    [state |-> state, generation |-> generation, counts |-> counts,
     notified |-> <<>>, moved |-> FALSE]

\* ------------------------------------------------------ moveToNextGeneration
\* Mutant: the next generation starts with the counts of the one before.
moveToNextGenerationKeepsCounts(cb, t) ==
    [cb EXCEPT !.generation = IF cb.state = Open
                                THEN t + opt.OpenStateExpiry
                                ELSE t + opt.GenerationInterval,
               !.moved = TRUE]

moveToNextGeneration(cb, t) ==
    LET c == resetCounts(cb)
    IN  [c EXCEPT !.generation = IF c.state = Open
                                   THEN t + opt.OpenStateExpiry
                                   ELSE t + opt.GenerationInterval,
                  !.moved = TRUE]

\* --------------------------------------------------------------- changeState
Event(t, from, to, reason) ==
    [When |-> t, From |-> from, To |-> to, Reason |-> reason]

\* Mutant: the state is changed without telling OnStateChange.
changeStateSilent(cb, t, newState, reason) ==
    moveToNextGeneration([cb EXCEPT !.state = newState], t)

changeState(cb, t, newState, reason) ==
    LET current == cb.state
        c1 == [cb EXCEPT !.state = newState]
        c2 == moveToNextGeneration(c1, t)
    IN  [c2 EXCEPT !.notified = Append(@, Event(t, current, newState, reason))]

\* ------------------------------------------------------------- postStartHook
\* Mutant: HalfOpen closes only when the successes exceed the threshold.
CheckStateStrictSuccess(cb, t) ==
    CASE cb.state = Open ->
            IF t > cb.generation
            THEN changeState(cb, t, HalfOpen, ReasonOpenStateExpired)
            ELSE cb
      [] cb.state = HalfOpen ->
            IF cb.counts.Success > opt.SuccessThreshold
            THEN changeState(cb, t, Closed, ReasonReachThreshold)
            ELSE cb
      [] cb.state = Closed ->
            IF cb.counts.Failure >= opt.FailureThreshold
            THEN changeState(cb, t, Open, ReasonReachThreshold)
            ELSE cb

\* Mutant: the expired Open state skips the probing and closes at once.
CheckStateSkipsHalfOpen(cb, t) ==
    CASE cb.state = Open ->
            IF After(t, cb.generation)
            THEN changeState(cb, t, Closed, ReasonOpenStateExpired)
            ELSE cb
      [] cb.state = HalfOpen ->
            IF cb.counts.Success >= opt.SuccessThreshold
            THEN changeState(cb, t, Closed, ReasonReachThreshold)
            ELSE cb
      [] cb.state = Closed ->
            IF shouldTrip(cb.counts)
            THEN changeState(cb, t, Open, ReasonReachThreshold)
            ELSE cb

\* The switch on the state at entry.
CheckState(cb, t) ==
    CASE cb.state = Open ->
            IF After(t, cb.generation)
            THEN changeState(cb, t, HalfOpen, ReasonOpenStateExpired)
            ELSE cb
      [] cb.state = HalfOpen ->
            IF cb.counts.Success >= opt.SuccessThreshold
            THEN changeState(cb, t, Closed, ReasonReachThreshold)
            ELSE cb
      [] cb.state = Closed ->
            IF shouldTrip(cb.counts)
            THEN changeState(cb, t, Open, ReasonReachThreshold)
            ELSE cb

\* The rollover of an expired generation after the switch.
Rollover(cb, t) ==
    IF After(t, cb.generation) THEN moveToNextGeneration(cb, t) ELSE cb

\* Mutant: no probe is admitted, a HalfOpen breaker rejects every call.
VerdictNoProbe(cb) ==
    IF cb.state = Open
    THEN ErrIsOpen
    ELSE IF cb.state = HalfOpen
         THEN ErrHalfOpenButExceedRequestLimit
         ELSE nil

\* The admit/reject decision on the re-evaluated breaker.
Verdict(cb) ==
    IF cb.state = Open
    THEN ErrIsOpen
    ELSE IF cb.state = HalfOpen /\ cb.counts.Request > opt.HalfOpenRequestLimit
         THEN ErrHalfOpenButExceedRequestLimit
         ELSE nil

\* Mutant: the request is counted before the admit/reject decision is
\* returned, so a rejected call is counted too.
postStartHookCountsRejected(cb, t) ==
    LET c2 == Rollover(CheckState(cb, t), t)
        err == Verdict(c2)
        c3 == [c2 EXCEPT !.counts.Request = @ + 1]
    IN  [cb |-> c3, gen |-> c3.generation, err |-> err]

\* postStartHook: the breaker afterwards, the token and the error returned.
postStartHook(cb, t) ==
    LET c2 == Rollover(CheckState(cb, t), t)
        err == Verdict(c2)
        c3 == IF err = nil
              THEN [c2 EXCEPT !.counts.Request = @ + 1]
              ELSE c2
    IN  [cb |-> c3, gen |-> c3.generation, err |-> err]

\* --------------------------------------------------------------- preStopHook
\* Mutant: a failure while HalfOpen is counted but does not reopen the breaker.
preStopHookNoReopen(cb, currentGeneration, handleSuccess, t) ==
    IF currentGeneration # cb.generation
    THEN cb
    ELSE IF ~handleSuccess
         THEN [cb EXCEPT !.counts.Failure = @ + 1]
         ELSE [cb EXCEPT !.counts.Success = @ + 1]

preStopHook(cb, currentGeneration, handleSuccess, t) ==
    IF currentGeneration # cb.generation
    THEN cb
    ELSE LET c1 == IF ~handleSuccess
                   THEN [cb EXCEPT !.counts.Failure = @ + 1]
                   ELSE [cb EXCEPT !.counts.Success = @ + 1]
         IN  IF c1.state = HalfOpen /\ ~handleSuccess
             THEN changeState(c1, t, Open, ReasonFailedOnHalfOpenState)
             ELSE c1

\* -------------------------------------------------------------------- mutex
\* Mutant: the mutex stays locked when the critical section returns.
deferUnlockMissing(m) == Locked

\* The deferred Unlock of a critical section: the mutex is free on return.
deferUnlock(m) == Unlocked

\* ------------------------------------------------------------------ helpers
NoRet == [kind |-> "none"]
Admitted == [kind |-> "admitted"]
Returned(resp, err) == [kind |-> "return", resp |-> resp, err |-> err]
Panicked(e) == [kind |-> "panic", value |-> e]

\* The calls in flight learn that a generation was started.
Staled(c, moved) == [c EXCEPT !.stale = @ \/ moved]

MarkStale(b, cb) ==
    IF ~cb.moved
    THEN b
    ELSE LET Fresh(n) == [n EXCEPT !.stale = FALSE]
             Copies(c) == IF BagIn(c, b) THEN b[c] ELSE 0
         IN  [n \in { Staled(c, TRUE) : c \in BagToSet(b) } |->
                 Copies(n) + Copies(Fresh(n))]

\* The example program's main is not running.
NoMain == [pc |-> 0, took |-> 0]

\* Write the breaker fields back.
Store(cb) ==
    /\ state' = cb.state
    /\ generation' = cb.generation
    /\ counts' = cb.counts
    /\ notified' = cb.notified

\* ------------------------------------------------------------------- Init
\* The breaker New returns, constructed at time 0 with the options opt.
Constructed ==
    /\ now = 0
    /\ state = Closed
    /\ generation = now + opt.GenerationInterval
    /\ counts = ZeroCounts
    /\ mutex = Unlocked
    /\ inflight = EmptyBag
    /\ ret = NoRet
    /\ notified = <<>>
    /\ completed = <<>>

Init ==
    /\ opt \in Options
    /\ Constructed
    /\ main = NoMain

\* ------------------------------------------------------------------ actions
\* Do, first part: postStartHook; a rejected call returns (nil, err) at once,
\* an admitted one goes on to run its handle.
Admission ==
    /\ mutex = Unlocked
    /\ \E r \in {postStartHook(Breaker, now)} :
           /\ Store(r.cb)
           /\ IF r.err # nil
              THEN /\ ret' = Returned(nil, r.err)
                   /\ inflight' = MarkStale(inflight, r.cb)
              ELSE /\ ret' = Admitted
                   /\ inflight' = MarkStale(inflight, r.cb)
                                    (+) SetToBag({[gen |-> r.gen,
                                                   probe |-> (r.cb.state = HalfOpen),
                                                   stale |-> FALSE]})
    /\ mutex' = deferUnlock(mutex)
    /\ completed' = <<>>
    /\ UNCHANGED <<opt, now>>

\* One of the NumProcs callers calls Do.
DoStart ==
    /\ BagCardinality(inflight) < NumProcs
    /\ counts.Request < MaxRequest
    /\ Admission
    /\ UNCHANGED main

\* Do, second part, for the call c in flight, whose handle did `did`:
\* preStopHook with the token captured at admission, then the call leaves Do
\* with result.
Complete(c, did, handleSuccess, result) ==
    /\ BagIn(c, inflight)
    /\ mutex = Unlocked
    /\ \E cb \in {preStopHook(Breaker, c.gen, handleSuccess, now)} :
           /\ Store(cb)
           /\ inflight' = MarkStale(inflight (-) SetToBag({c}), cb)
    /\ mutex' = deferUnlock(mutex)
    /\ ret' = result
    /\ completed' = <<[call |-> c, did |-> did]>>
    /\ UNCHANGED <<opt, now>>

\* The handle returned h = (resp, err): preStopHook(gen, err == nil), then
\* return resp, err.
DoReturn(c, h) ==
    /\ Complete(c, h, h.err = nil, Returned(h.resp, h.err))
    /\ UNCHANGED main

\* Mutant: the recovered panic is reported to preStopHook as a success.
DoPanicRecordsSuccess(c) ==
    /\ Complete(c, HandlePanic, TRUE, Panicked(HandlePanic.value))
    /\ UNCHANGED main

\* The handle panicked: the deferred function recovers, calls
\* preStopHook(g, false) and panics again with the same value.
DoPanic(c) ==
    /\ Complete(c, HandlePanic, FALSE, Panicked(HandlePanic.value))
    /\ UNCHANGED main

\* Reset
Reset ==
    /\ mutex = Unlocked
    /\ \E cb \in {changeState(Breaker, now, Closed, ReasonManuallyReset)} :
           /\ Store(cb)
           /\ inflight' = MarkStale(inflight, cb)
    /\ mutex' = deferUnlock(mutex)
    /\ ret' = NoRet
    /\ completed' = <<>>
    /\ UNCHANGED <<opt, now, main>>

\* State: returns cb.state under the read lock; nothing is written.
State ==
    /\ mutex = Unlocked
    /\ mutex' = deferUnlock(mutex)
    /\ UNCHANGED <<opt, state, generation, counts, now, inflight, ret, notified,
                   completed, main>>

\* Counts: returns cb.counts under the lock; nothing is written.
Counts ==
    /\ mutex = Unlocked
    /\ mutex' = deferUnlock(mutex)
    /\ UNCHANGED <<opt, state, generation, counts, now, inflight, ret, notified,
                   completed, main>>

\* The clock advances.
Tick ==
    /\ now < MaxTime
    /\ now' = now + 1
    /\ ret' = NoRet
    /\ notified' = <<>>
    /\ completed' = <<>>
    /\ UNCHANGED <<opt, state, generation, counts, mutex, inflight, main>>

Next ==
    \/ DoStart
    \/ \E c \in BagToSet(inflight) : \E h \in HandleResults : DoReturn(c, h)
    \/ \E c \in BagToSet(inflight) : DoPanic(c)
    \/ Reset
    \/ State
    \/ Counts
    \/ Tick

Spec == Init /\ [][Next]_vars

\* ------------------------------------------------------ sequential caller
\* One caller uses the breaker: each Do completes before the next Do or Reset
\* starts.
Built == state # nil

\* Valid options (HalfOpenRequestLimit >= SuccessThreshold) for the breaker
\* of the sequential caller.
SeqOptions ==
    { o \in [GenerationInterval : {2}, OpenStateExpiry : {1},
             FailureThreshold : {1, 2}, SuccessThreshold : {1, 2},
             HalfOpenRequestLimit : {1, 2}] :
        o.HalfOpenRequestLimit >= o.SuccessThreshold }

SeqInit ==
    /\ opt \in SeqOptions
    /\ Constructed
    /\ main = NoMain

\* Mutant: the caller does not wait for its call to complete before the next.
SeqStartConcurrent ==
    /\ Built
    /\ DoStart

SeqStart ==
    /\ Built
    /\ inflight = EmptyBag
    /\ DoStart

SeqReturn ==
    \E c \in BagToSet(inflight) : \E h \in HandleResults : DoReturn(c, h)

SeqPanic == \E c \in BagToSet(inflight) : DoPanic(c)

SeqReset ==
    /\ Built
    /\ inflight = EmptyBag
    /\ Reset

SeqTick ==
    /\ Built
    /\ Tick

SeqNext ==
    \/ SeqStart
    \/ SeqReturn
    \/ SeqPanic
    \/ SeqReset
    \/ SeqTick

SeqSpec == SeqInit /\ [][SeqNext]_vars

\* ---------------------------------------------------------------------- New
\* The defaults, durations in seconds.
DefaultOpenStateExpiry == 60
DefaultFailureThreshold == 100
DefaultSuccessThreshold == 100
DefaultGenerationInterval == 10
DefaultHalfOpenRequestLimit == 200

\* The options New is called with: every field zero or set.
RawOptions ==
    [GenerationInterval : {0, 2}, OpenStateExpiry : {0, 1},
     FailureThreshold : {0, 2}, SuccessThreshold : {0, 1, 3},
     HalfOpenRequestLimit : {0, 2}]

\* Mutant: a zero HalfOpenRequestLimit is left as it is.
DefaultedButLimit(o) ==
    [GenerationInterval |-> IF o.GenerationInterval = 0
                            THEN DefaultGenerationInterval
                            ELSE o.GenerationInterval,
     OpenStateExpiry |-> IF o.OpenStateExpiry = 0
                         THEN DefaultOpenStateExpiry
                         ELSE o.OpenStateExpiry,
     FailureThreshold |-> IF o.FailureThreshold = 0
                          THEN DefaultFailureThreshold
                          ELSE o.FailureThreshold,
     SuccessThreshold |-> IF o.SuccessThreshold = 0
                          THEN DefaultSuccessThreshold
                          ELSE o.SuccessThreshold,
     HalfOpenRequestLimit |-> o.HalfOpenRequestLimit]

\* The options after the five `if opt.X == 0` of New.
Defaulted(o) ==
    [GenerationInterval |-> IF o.GenerationInterval = 0
                            THEN DefaultGenerationInterval
                            ELSE o.GenerationInterval,
     OpenStateExpiry |-> IF o.OpenStateExpiry = 0
                         THEN DefaultOpenStateExpiry
                         ELSE o.OpenStateExpiry,
     FailureThreshold |-> IF o.FailureThreshold = 0
                          THEN DefaultFailureThreshold
                          ELSE o.FailureThreshold,
     SuccessThreshold |-> IF o.SuccessThreshold = 0
                          THEN DefaultSuccessThreshold
                          ELSE o.SuccessThreshold,
     HalfOpenRequestLimit |-> IF o.HalfOpenRequestLimit = 0
                              THEN DefaultHalfOpenRequestLimit
                              ELSE o.HalfOpenRequestLimit]

NewPanic ==
    Panicked("half-open request limit should greater than success threshold")

\* No breaker exists yet: New is about to be called with the options opt, at
\* the instant 0 or later.
NewInit ==
    /\ opt \in RawOptions
    /\ now \in 0..1
    /\ state = nil
    /\ generation = nil
    /\ counts = nil
    /\ mutex = Unlocked
    /\ inflight = EmptyBag
    /\ ret = NoRet
    /\ notified = <<>>
    /\ completed = <<>>
    /\ main = NoMain

\* New(opt): the defaults, the panic, or the breaker (Closed, cb.opt the
\* defaulted options, first generation started at time.Now()).
New ==
    /\ ~Built
    /\ ret = NoRet
    /\ \E o \in {Defaulted(opt)} :
           IF o.HalfOpenRequestLimit < o.SuccessThreshold
           THEN /\ ret' = NewPanic
                /\ UNCHANGED <<opt, state, generation, counts>>
           ELSE /\ opt' = o
                /\ state' = Closed
                /\ generation' = now + o.GenerationInterval
                /\ counts' = ZeroCounts
                /\ ret' = NoRet
    /\ UNCHANGED <<mutex, now, inflight, notified, completed, main>>

NewNext ==
    \/ New
    \/ SeqNext

NewSpec == NewInit /\ [][NewNext]_vars

\* ------------------------------------------------------------- recovery
\* The breaker under callers and a downstream that recovers: nobody calls
\* Reset; until the instant HealAt a handle may fail or panic, from HealAt on
\* every handle succeeds, every admitted call completes within the window of
\* its generation, and the callers submit at least SuccessThreshold
\* operations within the window of a HalfOpen generation.
HealAt == 1

Healed == now >= HealAt

\* Options whose HalfOpen window ends before the clock does.
LiveOptions ==
    { [GenerationInterval |-> 1, OpenStateExpiry |-> 1, FailureThreshold |-> 2,
       SuccessThreshold |-> 2, HalfOpenRequestLimit |-> 2] }

LiveInit ==
    /\ opt \in LiveOptions
    /\ Constructed
    /\ main = NoMain

Success == [kind |-> "return", resp |-> "value", err |-> nil]

LiveStart == DoStart

LiveSucceed == \E c \in BagToSet(inflight) : DoReturn(c, Success)

LiveFail ==
    /\ ~Healed
    /\ \E c \in BagToSet(inflight) :
           \/ \E h \in HandleResults \ {Success} : DoReturn(c, h)
           \/ DoPanic(c)

\* The clock advances; once healed it does not pass the expiry of the
\* generation while a call admitted in it is running, nor the expiry of a
\* HalfOpen generation that has not seen SuccessThreshold successes.
LiveTick ==
    /\ Healed /\ now = generation =>
           /\ \A c \in BagToSet(inflight) : c.stale
           /\ state = HalfOpen => counts.Success >= opt.SuccessThreshold
    /\ Tick

LiveNext ==
    \/ LiveStart
    \/ LiveSucceed
    \/ LiveFail
    \/ LiveTick

\* Time keeps advancing, callers keep calling Do, every handle that runs
\* returns.
LiveSpec ==
    /\ LiveInit
    /\ [][LiveNext]_vars
    /\ WF_vars(LiveTick)
    /\ WF_vars(LiveStart)
    /\ WF_vars(LiveSucceed)

\* ------------------------------------------------- example/response.go
\* The example program: init constructs the breaker with DemoOption, main is
\* its only caller and runs DemoScript, one Do after the other.  Its clock is
\* read in seconds.
DemoOption ==
    [GenerationInterval |-> 2, OpenStateExpiry |-> 2, FailureThreshold |-> 3,
     SuccessThreshold |-> 5, HalfOpenRequestLimit |-> 10]

\* time.Sleep(2 * time.Second)
SleepDuration == 2

\* do(success, times): `times` calls of Do whose handle succeeds or fails.
do(success, times) == [i \in 1..times |-> [op |-> "do", success |-> success]]

Sleep == [op |-> "sleep"]

\* main
DemoScript ==
    do(FALSE, 10) \o <<Sleep>> \o do(TRUE, 2) \o do(FALSE, 1) \o do(TRUE, 2)
        \o <<Sleep>> \o do(TRUE, 6)

\* The handle do passes to Do.
DemoHandle(success) ==
    [kind |-> "return", resp |-> nil,
     err |-> IF success THEN nil ELSE "manual error"]

Running == main.pc \in 1..Len(DemoScript)

\* MaxTook: the calls main makes between two Sleeps take this many ticks of
\*   the clock at most (they return at once: no run of calls lasts longer
\*   than a GenerationInterval).
\* MaxOversleep: Sleep returns this many ticks late at most.
MaxTook == 1
MaxOversleep == 2

DemoInit ==
    /\ opt = DemoOption
    /\ Constructed
    /\ main = [pc |-> 1, took |-> 0]

\* The loop of do enters Do: postStartHook; a rejected call returns to do.
MainDo ==
    /\ Running
    /\ DemoScript[main.pc].op = "do"
    /\ inflight = EmptyBag
    /\ Admission
    /\ main' = IF ret'.kind = "return"
               THEN [main EXCEPT !.pc = @ + 1]
               ELSE main

\* The handle of the call in flight returns what do told it to: preStopHook,
\* and Do returns to do.
MainHandle ==
    /\ Running
    /\ \E c \in BagToSet(inflight) :
           \E h \in {DemoHandle(DemoScript[main.pc].success)} :
               Complete(c, h, h.err = nil, Returned(h.resp, h.err))
    /\ main' = [main EXCEPT !.pc = @ + 1]

\* Mutant: Sleep returns when exactly the duration has passed on the clock.
MainSleepExact ==
    /\ Running
    /\ DemoScript[main.pc].op = "sleep"
    /\ now' = now + SleepDuration
    /\ main' = [pc |-> main.pc + 1, took |-> 0]
    /\ ret' = NoRet
    /\ notified' = <<>>
    /\ completed' = <<>>
    /\ UNCHANGED <<opt, state, generation, counts, mutex, inflight>>

\* time.Sleep pauses main for at least the duration, and the calls before it
\* took time too: the clock reads more than SleepDuration later than it did
\* when the breaker was last touched.
MainSleep ==
    /\ Running
    /\ DemoScript[main.pc].op = "sleep"
    /\ \E late \in 1..MaxOversleep : now' = now + SleepDuration + late
    /\ main' = [pc |-> main.pc + 1, took |-> 0]
    /\ ret' = NoRet
    /\ notified' = <<>>
    /\ completed' = <<>>
    /\ UNCHANGED <<opt, state, generation, counts, mutex, inflight>>

\* The clock advances while do runs.
MainTick ==
    /\ Running
    /\ DemoScript[main.pc].op = "do"
    /\ main.took < MaxTook
    /\ now' = now + 1
    /\ main' = [main EXCEPT !.took = @ + 1]
    /\ ret' = NoRet
    /\ notified' = <<>>
    /\ completed' = <<>>
    /\ UNCHANGED <<opt, state, generation, counts, mutex, inflight>>

DemoNext ==
    \/ MainDo
    \/ MainHandle
    \/ MainSleep
    \/ MainTick

DemoSpec == DemoInit /\ [][DemoNext]_vars

TypeOK ==
    /\ state \in {Open, HalfOpen, Closed}
    /\ mutex \in {Unlocked, Locked}
    /\ now \in 0..MaxTime
    /\ BagCardinality(inflight) <= NumProcs
    /\ Len(notified) <= 1

\* ================================================================== claims
\* The steps the claims speak of, told by the history variables: only the
\* second part of Do sets completed, to the call that completed, and only the
\* first part of Do leaves completed empty with ret admitted or returned.
Starts == completed' = <<>> /\ ret'.kind \in {"admitted", "return"}

Completes == completed' # <<>>

\* The call that completes in this step, as it was in flight, and what its
\* handle did.
call == completed'[1].call

did == completed'[1].did

Failed == did.kind = "panic" \/ did.err # nil

Rejected(err) == Returned(nil, err)

InFlight == BagCardinality(inflight)

OneRequest == [Request |-> 1, Success |-> 0, Failure |-> 0]

\* ---------------------------------------------------------------------- C1
\* C1 as stated: the completion that records the FailureThreshold-th failure
\* of a Closed generation opens the breaker (State() is Open as soon as that
\* call has returned) and sends the one notification Closed -> Open with
\* ReasonReachThreshold.
C1Original ==
    [][( /\ Completes /\ Failed
         /\ state = Closed
         /\ call.gen = generation
         /\ counts.Failure + 1 = opt.FailureThreshold )
       => /\ state' = Open
          /\ notified' = <<Event(now, Closed, Open, ReasonReachThreshold)>>]_vars

\* C1 amended: a completion never opens a Closed breaker, not even the one
\* that records the FailureThreshold-th failure; the breaker opens at the
\* admission of the next Do that finds it Closed with Failure >=
\* FailureThreshold: that call sends exactly one notification (Closed, Open,
\* ReasonReachThreshold), is rejected with ErrIsOpen without running its
\* handle and leaves the state Open with zero counts.  A Do that finds the
\* breaker Closed below the threshold leaves it Closed and sends nothing, and
\* no other step ever sends a Closed -> Open notification.
C1Theorem ==
    [][/\ (Completes /\ state = Closed)
            => (state' = Closed /\ notified' = <<>>)
       /\ (Starts /\ state = Closed /\ counts.Failure >= opt.FailureThreshold)
            => /\ state' = Open
               /\ notified' = <<Event(now, Closed, Open, ReasonReachThreshold)>>
               /\ ret' = Rejected(ErrIsOpen)
               /\ counts' = ZeroCounts
               /\ BagCardinality(inflight') = InFlight
       /\ (Starts /\ state = Closed /\ counts.Failure < opt.FailureThreshold)
            => (state' = Closed /\ notified' = <<>> /\ ret' = Admitted)
       /\ (\E k \in 1..Len(notified') :
               notified'[k].From = Closed /\ notified'[k].To = Open)
            => /\ state = Closed
               /\ counts.Failure >= opt.FailureThreshold
               /\ ret' = Rejected(ErrIsOpen)
               /\ Len(notified') = 1]_vars

\* The Do after the threshold-reaching failure has just opened the breaker.
C1Witness ==
    /\ state = Open
    /\ notified = <<Event(now, Closed, Open, ReasonReachThreshold)>>
    /\ ret = Rejected(ErrIsOpen)

\* ---------------------------------------------------------------------- C2
\* C2: a Do that finds the breaker Open at a time not after the expiry
\* (generation) returns ErrIsOpen, does not run its handle and leaves state,
\* counts and generation alone; a Do that finds it Open after the expiry moves
\* it to HalfOpen with ReasonOpenStateExpired and is itself admitted as the
\* first request (a probe) of the new generation.
C2Theorem ==
    [][/\ (Starts /\ state = Open /\ ~(now > generation))
            => /\ ret' = Rejected(ErrIsOpen)
               /\ notified' = <<>>
               /\ UNCHANGED <<state, counts, generation, inflight>>
       /\ (Starts /\ state = Open /\ now > generation)
            => /\ state' = HalfOpen
               /\ notified' = <<Event(now, Open, HalfOpen, ReasonOpenStateExpired)>>
               /\ ret' = Admitted
               /\ counts' = OneRequest
               /\ generation' = now + opt.GenerationInterval
               /\ BagCardinality(inflight') = InFlight + 1
               /\ BagIn([gen |-> generation', probe |-> TRUE, stale |-> FALSE],
                        inflight')]_vars

\* The first Do after the expiry has moved the breaker to HalfOpen and runs
\* as its first probe.
C2Witness ==
    /\ state = HalfOpen
    /\ notified = <<Event(now, Open, HalfOpen, ReasonOpenStateExpired)>>
    /\ ret = Admitted
    /\ counts = OneRequest
    /\ BagIn([gen |-> generation, probe |-> TRUE, stale |-> FALSE], inflight)

\* ---------------------------------------------------------------------- C3
\* C3 as stated: while the breaker is HalfOpen, every probe that completes
\* with a failure opens it at that completion, with the notification
\* ReasonFailedOnHalfOpenState and zero counts, whatever happened between its
\* admission and its completion.
C3Original ==
    [][(Completes /\ Failed /\ state = HalfOpen /\ call.probe)
       => /\ state' = Open
          /\ notified' = <<Event(now, HalfOpen, Open, ReasonFailedOnHalfOpenState)>>
          /\ counts' = ZeroCounts]_vars

\* C3 amended: while the breaker is HalfOpen, a probe that completes with a
\* failure and whose captured token still equals the breaker's generation
\* opens it at that completion, with one notification
\* ReasonFailedOnHalfOpenState, zero counts and the expiry now +
\* OpenStateExpiry; a failing probe whose token no longer equals the
\* generation (a rollover or a transition came in between) is discarded: state,
\* counts and generation stay as they are and nothing is notified.
C3Theorem ==
    [][/\ ( /\ Completes /\ Failed
            /\ state = HalfOpen
            /\ call.probe
            /\ call.gen = generation )
          => /\ state' = Open
             /\ notified' = <<Event(now, HalfOpen, Open, ReasonFailedOnHalfOpenState)>>
             /\ counts' = ZeroCounts
             /\ generation' = now + opt.OpenStateExpiry
       /\ ( /\ Completes /\ Failed
            /\ call.probe
            /\ call.gen # generation )
          => /\ notified' = <<>>
             /\ UNCHANGED <<state, counts, generation>>]_vars

\* A failed probe has just reopened the breaker.
C3Witness ==
    /\ state = Open
    /\ notified = <<Event(now, HalfOpen, Open, ReasonFailedOnHalfOpenState)>>
    /\ completed # <<>>
    /\ completed[1].call.probe
    /\ counts = ZeroCounts

\* ---------------------------------------------------------------------- C4
\* C4 as stated: no state between two steps has the breaker HalfOpen with
\* counts.Success >= SuccessThreshold.
C4Original ==
    ~(state = HalfOpen /\ counts.Success >= opt.SuccessThreshold)

\* C4 amended: a completion that records a success never changes the state,
\* so the breaker stays HalfOpen with Success >= SuccessThreshold until the
\* next admission; the Do that finds it HalfOpen with Success >=
\* SuccessThreshold closes it with one notification (HalfOpen, Closed,
\* ReasonReachThreshold), resets the counts and is admitted as the first
\* request of the new generation; a Do that finds it HalfOpen below the
\* threshold leaves it HalfOpen.
C4Theorem ==
    [][/\ (Completes /\ ~Failed /\ state = HalfOpen)
            => (state' = HalfOpen /\ notified' = <<>>)
       /\ (Starts /\ state = HalfOpen /\ counts.Success >= opt.SuccessThreshold)
            => /\ state' = Closed
               /\ notified' = <<Event(now, HalfOpen, Closed, ReasonReachThreshold)>>
               /\ counts' = OneRequest
               /\ generation' = now + opt.GenerationInterval
               /\ ret' = Admitted
       /\ (Starts /\ state = HalfOpen /\ counts.Success < opt.SuccessThreshold)
            => (state' = HalfOpen /\ notified' = <<>>)]_vars

\* The Do after the threshold-reaching success has just closed the breaker.
C4Witness ==
    /\ state = Closed
    /\ notified = <<Event(now, HalfOpen, Closed, ReasonReachThreshold)>>
    /\ ret = Admitted
    /\ counts = OneRequest

\* ---------------------------------------------------------------------- C5
\* C5 as stated: the number of calls admitted in one HalfOpen generation
\* (counts.Request) never exceeds HalfOpenRequestLimit.
C5Original ==
    state = HalfOpen => counts.Request <= opt.HalfOpenRequestLimit

\* ---------------------------------------------------------------------- C6
\* C6 as stated: the completion of a call since whose admission a generation
\* was started (a transition, a rollover or a Reset) leaves state, counts and
\* generation unchanged and notifies nothing.
C6Original ==
    [][(Completes /\ call.stale)
       => /\ notified' = <<>>
          /\ UNCHANGED <<state, counts, generation>>]_vars

\* ---------------------------------------------------------------------- C7
\* C7 as stated: Reset leaves the breaker Closed with zero counts and the
\* expiry now + GenerationInterval, sends the one notification (prior state,
\* Closed, ReasonManuallyReset), and no call admitted before it can be counted
\* afterwards: none of the calls in flight holds the token of the generation
\* Reset starts.
C7Original ==
    [][(completed' = <<>> /\ ret' = NoRet /\ Len(notified') = 1
          /\ notified'[1].Reason = ReasonManuallyReset)
       => /\ state' = Closed
          /\ counts' = ZeroCounts
          /\ generation' = now + opt.GenerationInterval
          /\ notified' = <<Event(now, state, Closed, ReasonManuallyReset)>>
          /\ \A c \in BagToSet(inflight') : c.gen # generation']_vars

\* ---------------------------------------------------------------------- C8
\* C8: the mutex is free in every state between two steps, in particular
\* while handles are running; so with calls in flight a Reset, a State, a
\* Counts, the completion of any call in flight (in any order) and, caller
\* and request bound permitting, a further admission can each be the next
\* step.
C8Theorem ==
    /\ mutex = Unlocked
    /\ inflight # EmptyBag
         => /\ ENABLED Reset
            /\ ENABLED State
            /\ ENABLED Counts
            /\ \A c \in BagToSet(inflight) : ENABLED DoPanic(c)
            /\ (BagCardinality(inflight) < NumProcs /\ counts.Request < MaxRequest)
                 => ENABLED DoStart

\* A call has completed while a call admitted before it is still running:
\* the one in flight saw a generation start that the completed one did not
\* (and this step started none).
C8Witness ==
    /\ mutex = Unlocked
    /\ completed # <<>>
    /\ ~completed[1].call.stale
    /\ notified = <<>>
    /\ \E c \in BagToSet(inflight) : c.stale

\* ---------------------------------------------------------------------- C9
\* The request count the admit/reject decision of this step was taken on.
RequestAtDecision ==
    IF ret' = Admitted THEN counts'.Request - 1 ELSE counts'.Request

C10Theorem ==
    [][(Completes /\ did.kind = "panic")
       => /\ ret' = Panicked(did.value)
          /\ BagCardinality(inflight') = InFlight - 1
          /\ IF call.gen # generation
             THEN /\ notified' = <<>>
                  /\ UNCHANGED <<state, counts, generation>>
             ELSE IF state = HalfOpen
             THEN /\ state' = Open
                  /\ counts' = ZeroCounts
                  /\ generation' = now + opt.OpenStateExpiry
                  /\ notified' =
                       <<Event(now, HalfOpen, Open, ReasonFailedOnHalfOpenState)>>
             ELSE /\ counts' = [counts EXCEPT !.Failure = @ + 1]
                  /\ notified' = <<>>
                  /\ UNCHANGED <<state, generation>>]_vars

\* A panic has just been counted as a failure of a Closed generation and has
\* gone on to the caller.
C10Witness ==
    /\ completed # <<>>
    /\ completed[1].did.kind = "panic"
    /\ ret = Panicked(HandlePanic.value)
    /\ state = Closed
    /\ counts.Failure > 0

\* A Reset, told by the history variables: nothing was admitted, rejected or
\* completed and the clock did not move.
Resets == completed' = <<>> /\ ret' = NoRet /\ now' = now

\* --------------------------------------------------------------------- C11
\* C11: OnStateChange is invoked exactly once for every state transition and
\* never otherwise: a step that changes the state, and every Reset, sends
\* exactly one event whose From is the state before and whose To is the state
\* after; every other step, a plain generation rollover included, sends none.
C11Theorem ==
    [][/\ Len(notified') <= 1
       /\ (state' # state \/ Resets) =>
              /\ Len(notified') = 1
              /\ notified'[1].From = state
              /\ notified'[1].To = state'
              /\ notified'[1].When = now
       /\ notified' # <<>> => (state' # state \/ Resets)
       /\ (generation' # generation /\ state' = state /\ ~Resets) =>
              notified' = <<>>]_vars

\* A failed probe has just reopened the breaker and the one event
\* HalfOpen -> Open was sent.
C11Witness ==
    /\ state = Open
    /\ completed # <<>>
    /\ notified = <<Event(now, HalfOpen, Open, ReasonFailedOnHalfOpenState)>>

\* --------------------------------------------------------------------- C12
\* The step changes the state from `from` to `to` and sends the one event
\* that says so.
Changed(from, to, reason) ==
    /\ state = from
    /\ state' = to
    /\ notified' = <<Event(now, from, to, reason)>>

\* C12: the only state changes that ever occur are
\*   Closed -> Open, ReasonReachThreshold, at an admission that finds the trip
\*     predicate true of the current counts;
\*   Open -> HalfOpen, ReasonOpenStateExpired, at an admission whose time is
\*     past the open expiry;
\*   HalfOpen -> Closed, ReasonReachThreshold, at an admission that finds
\*     counts.Success >= SuccessThreshold;
\*   HalfOpen -> Open, ReasonFailedOnHalfOpenState, at the completion of a
\*     failed probe;
\*   any -> Closed, ReasonManuallyReset, by Reset.
\* So the breaker never goes Closed -> HalfOpen, and never Open -> Closed
\* without a Reset.
C12Theorem ==
    [][(state' # state \/ notified' # <<>>) =>
          \/ /\ Changed(Closed, Open, ReasonReachThreshold)
             /\ Starts
             /\ shouldTrip(counts)
          \/ /\ Changed(Open, HalfOpen, ReasonOpenStateExpired)
             /\ Starts
             /\ now > generation
          \/ /\ Changed(HalfOpen, Closed, ReasonReachThreshold)
             /\ Starts
             /\ counts.Success >= opt.SuccessThreshold
          \/ /\ Changed(HalfOpen, Open, ReasonFailedOnHalfOpenState)
             /\ Completes
             /\ Failed
             /\ call.probe
          \/ /\ Changed(state, Closed, ReasonManuallyReset)
             /\ Resets]_vars

\* A Reset has just closed an Open breaker.
C12Witness ==
    /\ state = Closed
    /\ ret = NoRet
    /\ notified = <<Event(now, Open, Closed, ReasonManuallyReset)>>

\* --------------------------------------------------------------------- C13
\* C13: counts are reset atomically with every generation change.  The token
\* changes only in a transition, in a Reset, or at an admission whose time is
\* past the expiry (rollover); in every step in which the token changes, or a
\* transition or Reset starts a generation, success and failure are zero when
\* the critical section ends and request is at most 1: it is 1 exactly when
\* the step admitted a call.  A rollover that fires no transition leaves the
\* state unchanged and sets the expiry to now + GenerationInterval.
C13Theorem ==
    [][/\ (generation' # generation \/ notified' # <<>>) =>
              /\ counts'.Success = 0
              /\ counts'.Failure = 0
              /\ counts'.Request = (IF ret' = Admitted THEN 1 ELSE 0)
       /\ generation' # generation =>
              \/ notified' # <<>>
              \/ /\ Starts
                 /\ now > generation
                 /\ state' = state
                 /\ state # Open
                 /\ generation' = now + opt.GenerationInterval]_vars

\* The admission of a call has just started a generation of a Closed breaker
\* without any transition, while a call of the generation before is still in
\* flight: the counts show the admitted call only.
C13Witness ==
    /\ state = Closed
    /\ ret = Admitted
    /\ notified = <<>>
    /\ now > 2
    /\ generation = now + opt.GenerationInterval
    /\ counts = OneRequest
    /\ \E c \in BagToSet(inflight) : c.stale /\ c.gen < generation

\* --------------------------------------------------------------------- C14
\* C14: the demonstration scenario behaves as described.  Statements 1-10 of
\* DemoScript are the failing calls, 11 the first Sleep, 12-13 two successful
\* calls, 14 the failing call, 15-16 two more calls, 17 the second Sleep and
\* 18-23 the six successful calls.
\*   - The first three calls are admitted by the Closed breaker and their
\*     failures counted; the breaker opens after the 3rd failure, at the
\*     admission of call 4 (Failure = 3, ReasonReachThreshold); calls 4-10 all
\*     return ErrIsOpen and leave the counts zero; Failure never exceeds 3.
\*   - After the Sleep the two successful calls run in HalfOpen and the
\*     successes accumulate (1, then 2).
\*   - The failing call then reopens the breaker (ReasonFailedOnHalfOpenState).
\*   - After the second Sleep the six successful calls are admitted, five of
\*     them in one HalfOpen generation; the sixth finds Success = 5 and closes
\*     the breaker, and main ends with the breaker Closed.
C14Theorem ==
    [][/\ counts'.Failure <= 3
       /\ (Starts /\ main.pc \in 1..3) =>
              ret' = Admitted /\ state' = Closed
       /\ (Completes /\ main.pc \in 1..3) =>
              /\ state' = Closed
              /\ counts' = [Request |-> main.pc, Success |-> 0,
                            Failure |-> main.pc]
       /\ (Starts /\ main.pc = 4) =>
              /\ counts.Failure = 3
              /\ notified' = <<Event(now, Closed, Open, ReasonReachThreshold)>>
       /\ (Starts /\ main.pc \in 4..10) =>
              /\ ret' = Rejected(ErrIsOpen)
              /\ state' = Open
              /\ counts' = ZeroCounts
       /\ (Starts /\ main.pc \in 12..14) =>
              ret' = Admitted /\ state' = HalfOpen
       /\ (Completes /\ main.pc \in 12..13) =>
              /\ state' = HalfOpen
              /\ counts'.Success = main.pc - 11
       /\ (Completes /\ main.pc = 14) =>
              /\ state' = Open
              /\ notified' =
                    <<Event(now, HalfOpen, Open, ReasonFailedOnHalfOpenState)>>
       /\ (Starts /\ main.pc \in 18..22) =>
              /\ ret' = Admitted
              /\ state' = HalfOpen
              /\ generation' = IF main.pc = 18
                               THEN now + opt.GenerationInterval
                               ELSE generation
       /\ (Completes /\ main.pc \in 18..22) =>
              /\ state' = HalfOpen
              /\ counts'.Success = main.pc - 17
       /\ (Starts /\ main.pc = 23) =>
              /\ counts.Success = 5
              /\ ret' = Admitted
              /\ notified' = <<Event(now, HalfOpen, Closed, ReasonReachThreshold)>>
       /\ main'.pc > 23 => state' = Closed]_vars

\* main has run to its end: the sixth successful call closed the breaker and
\* was counted in the Closed generation.
C14Witness ==
    /\ opt = DemoOption
    /\ main.pc = Len(DemoScript) + 1
    /\ state = Closed
    /\ counts = [Request |-> 1, Success |-> 1, Failure |-> 0]

\* --------------------------------------------------------------------- C15
\* C15: recovery is always possible.  From every state in which the breaker
\* is Open, the downstream has healed and the open expiry lies before the end
\* of the clock, when time keeps advancing, callers keep submitting
\* operations and nobody calls Reset, the breaker eventually is HalfOpen and
\* after that eventually Closed.
Recovering == state = Open /\ Healed /\ generation < MaxTime

Effective(raw, default) == IF raw = 0 THEN default ELSE raw

C16Theorem ==
    [][IF ~Built
       THEN LET limit == Effective(opt.HalfOpenRequestLimit,
                                   DefaultHalfOpenRequestLimit)
                threshold == Effective(opt.SuccessThreshold,
                                       DefaultSuccessThreshold)
            IN  IF limit < threshold
                THEN ret' = NewPanic /\ ~Built'
                ELSE /\ ret' = NoRet
                     /\ opt'.HalfOpenRequestLimit = limit
                     /\ opt'.SuccessThreshold = threshold
                     /\ opt'.FailureThreshold =
                           Effective(opt.FailureThreshold,
                                     DefaultFailureThreshold)
                     /\ opt'.OpenStateExpiry =
                           Effective(opt.OpenStateExpiry,
                                     DefaultOpenStateExpiry)
                     /\ opt'.GenerationInterval =
                           Effective(opt.GenerationInterval,
                                     DefaultGenerationInterval)
                     /\ state' = Closed
                     /\ counts' = ZeroCounts
                     /\ generation' = now + opt'.GenerationInterval
       ELSE /\ opt' = opt
            /\ opt.HalfOpenRequestLimit >= opt.SuccessThreshold]_vars

\* A breaker built from options whose thresholds were all zero is in use:
\* it carries the defaults and has admitted a call.
C16Witness ==
    /\ Built
    /\ opt.SuccessThreshold = DefaultSuccessThreshold
    /\ opt.HalfOpenRequestLimit = DefaultHalfOpenRequestLimit
    /\ opt.FailureThreshold = DefaultFailureThreshold
    /\ counts.Request > 0

\* New has panicked on options whose limit is set and not below the success
\* threshold as given, but below the default that replaced the zero threshold.
C16WitnessPanic ==
    /\ ret = NewPanic
    /\ opt.SuccessThreshold = 0
    /\ opt.HalfOpenRequestLimit > 0

\* --------------------------------------------------------------------- C17
\* C17 as stated: counts drive a transition only inside their validity
\* window.  An admission whose time is already past the expiry of the
\* generation never takes the Closed -> Open trip nor the HalfOpen -> Closed
\* close: the expired counts are dropped by the rollover and the call is
\* judged, and admitted, on a fresh generation of the same state.
C17Original ==
    [][(Starts /\ now > generation /\ state \in {Closed, HalfOpen}) =>
          /\ state' = state
          /\ notified' = <<>>
          /\ ret' = Admitted
          /\ generation' = now + opt.GenerationInterval
          /\ counts' = OneRequest]_vars

\* --------------------------------------------------------------------- C18
\* C18 as stated: in every reachable state, for any interleaving of
\* concurrent Do calls, Resets and clock advances, the counts are not
\* negative and Success + Failure <= Request: no more outcomes are recorded
\* in a generation than operations were admitted in it.
C18Original ==
    /\ counts.Request >= 0
    /\ counts.Success >= 0
    /\ counts.Failure >= 0
    /\ counts.Success + counts.Failure <= counts.Request

\* --------------------------------------------------------------------- C19
\* C19 as stated: whenever the state is Open the counts are exactly (0,0,0),
\* and whenever the state is HalfOpen counts.Failure is 0.
C19Original ==
    /\ state = Open => counts = ZeroCounts
    /\ state = HalfOpen => counts.Failure = 0

\* --------------------------------------------------------------------- C20
\* C20: with a single sequential caller (each Do completes before the next Do
\* or Reset starts) and valid options (HalfOpenRequestLimit >=
\* SuccessThreshold), ErrHalfOpenButExceedRequestLimit is never returned: in
\* HalfOpen every probe's outcome is counted (the successes and the probe in
\* flight make up the requests), so the request count never exceeds
\* SuccessThreshold, hence never the limit: the breaker closes or reopens
\* first.
C20Theorem ==
    /\ ret # Rejected(ErrHalfOpenButExceedRequestLimit)
    /\ state = HalfOpen =>
           /\ counts.Success + InFlight = counts.Request
           /\ counts.Request <= opt.SuccessThreshold
           /\ counts.Request <= opt.HalfOpenRequestLimit

\* The probes have used up the whole quota of a HalfOpen generation, and the
\* next call has closed the breaker instead of being rejected.
C20Witness ==
    /\ opt.SuccessThreshold = opt.HalfOpenRequestLimit
    /\ opt.HalfOpenRequestLimit = 2
    /\ state = Closed
    /\ ret = Admitted
    /\ notified = <<Event(now, HalfOpen, Closed, ReasonReachThreshold)>>

====
